---------------------------- MODULE Spec2Model ----------------------------
(***************************************************************************)
(* Model of the CYW20829 Cryptolite code example (main.c): the UART        *)
(* session driver (menu / message entry / message ready), the four AES     *)
(* wrappers, the SHA-256 call and the TRNG password generator.             *)
(*                                                                         *)
(* The driver, the wrappers and the password generator are translated from *)
(* main.c.  The Cryptolite engines themselves (AES block function, CTR and *)
(* CFB chaining, SHA-256, TRNG) are vendor code that main.c only calls;    *)
(* their chaining is modelled from sections 4.2-4.4 of the specification   *)
(* and the block function and the digest by keyed mixing functions.        *)
(***************************************************************************)
EXTENDS Integers, Sequences, FiniteSets, TLC

(***************************************************************************)
(* Program constants (main.c macros).                                      *)
(***************************************************************************)
MAX_MESSAGE_SIZE == 100
AES128_ENCRYPTION_LENGTH == 16
AES128_KEY_LENGTH == 16
CRYPTOLITE_MESSAGE_DIGEST_SIZE == 32
ASCII_7BIT_MASK == 127
PASSWORD_LENGTH == 8
ASCII_VISIBLE_CHARACTER_START == 33

CRYPTOLITE_AES_CTR == 49
CRYPTOLITE_AES_CFB == 50
CRYPTOLITE_SHA_256 == 51
CRYPTOLITE_TRNG == 52

CR == 13
LF == 10
BACKSPACE == 8

MESSAGE_ENTER_NEW == "MESSAGE_ENTER_NEW"
MESSAGE_READY == "MESSAGE_READY"
MENU == "MENU"

CY_CRYPTOLITE_SUCCESS == "SUCCESS"
CY_CRYPTOLITE_ERROR == "ERROR"

(***************************************************************************)
(* Bytes and byte arrays.  A C array uint8_t a[n] is a function on 0..n-1. *)
(***************************************************************************)
Byte == 0..255

Zeros(n) == [i \in 0..(n - 1) |-> 0]

FromSeq(s) == [i \in 0..(Len(s) - 1) |-> s[i + 1]]

RECURSIVE Xor(_, _)
Xor(a, b) ==
    IF a = 0 THEN b
    ELSE IF b = 0 THEN a
    ELSE (((a % 2) + (b % 2)) % 2) + 2 * Xor(a \div 2, b \div 2)

RECURSIVE And(_, _)
And(a, b) ==
    IF a = 0 \/ b = 0 THEN 0
    ELSE ((a % 2) * (b % 2)) + 2 * And(a \div 2, b \div 2)

Block(t) == [j \in 0..15 |-> t[j + 1]]

XorBlock(x, y) ==
    Block(<<Xor(x[0], y[0]), Xor(x[1], y[1]), Xor(x[2], y[2]), Xor(x[3], y[3]),
            Xor(x[4], y[4]), Xor(x[5], y[5]), Xor(x[6], y[6]), Xor(x[7], y[7]),
            Xor(x[8], y[8]), Xor(x[9], y[9]), Xor(x[10], y[10]), Xor(x[11], y[11]),
            Xor(x[12], y[12]), Xor(x[13], y[13]), Xor(x[14], y[14]), Xor(x[15], y[15])>>)

(***************************************************************************)
(* The canonical key and IVs as main.c initialises them.                   *)
(***************************************************************************)
aes_key_init ==
    FromSeq(<<170, 187, 204, 221, 238, 255, 255, 238,
              221, 204, 187, 170, 170, 187, 204, 221>>)

AesCtrIV_init == [i \in 0..15 |-> i]

AesCfbIV_init == [i \in 0..15 |-> i]

(***************************************************************************)
(* Cryptolite engines (vendor code, modelled from the specification).      *)
(***************************************************************************)

(* The AES-128 block function E_k(b): sixteen bytes in, sixteen bytes out, *)
(* keyed.  Only its being a fixed function of (key, block) is used.        *)
EncryptBlock(key, blk) ==
    [j \in 0..15 |->
        (5 * blk[j] + 3 * blk[(j + 1) % 16] + blk[(j + 7) % 16]
           + key[j] + 2 * key[(j + 5) % 16] + 17 * j + 1) % 256]

(* The counter block as a 128-bit big-endian integer, plus one. *)
RECURSIVE IncFrom(_, _)
IncFrom(ctr, j) ==
    IF j < 0 THEN ctr
    ELSE IF ctr[j] = 255 THEN IncFrom([ctr EXCEPT ![j] = 0], j - 1)
    ELSE [ctr EXCEPT ![j] = ctr[j] + 1]

Inc128(ctr) == IncFrom(ctr, 15)

(* SHA-256 of a byte sequence: 32 bytes, a function of the content and the *)
(* length of the data.                                                     *)
At(data, i) == IF i <= Len(data) THEN data[i] + 1 ELSE 0

BlockSum(data, o) ==
    At(data, o + 1) + 2 * At(data, o + 2) + 3 * At(data, o + 3) + 4 * At(data, o + 4)
    + 5 * At(data, o + 5) + 6 * At(data, o + 6) + 7 * At(data, o + 7)
    + 8 * At(data, o + 8) + 9 * At(data, o + 9) + 10 * At(data, o + 10)
    + 11 * At(data, o + 11) + 12 * At(data, o + 12) + 13 * At(data, o + 13)
    + 14 * At(data, o + 14) + 15 * At(data, o + 15) + 16 * At(data, o + 16)

RECURSIVE Sha256Mix(_, _)
Sha256Mix(data, b) ==
    IF b < 0 THEN 7 + Len(data)
    ELSE (Sha256Mix(data, b - 1) * 31 + BlockSum(data, 16 * b)) % 65521

Sha256(data) ==
    LET h == Sha256Mix(data, (Len(data) - 1) \div 16)
    IN  [j \in 0..(CRYPTOLITE_MESSAGE_DIGEST_SIZE - 1) |->
            (h * (j + 3) + (h \div 256) + 29 * j) % 256]

(***************************************************************************)
(* Static storage.  The six zero-initialised arrays of main.c are held in  *)
(* a record M with one field per array; an access past the end of an array *)
(* lands in the array the build places after it.                           *)
(***************************************************************************)
Objects ==
    <<"hash", "message", "encrypted_msg", "decrypted_msg",
      "AesCtrIV_copied", "AesCfbIV_copied">>

Size(obj) ==
    CASE obj = "hash" -> CRYPTOLITE_MESSAGE_DIGEST_SIZE
      [] obj = "message" -> MAX_MESSAGE_SIZE
      [] obj = "encrypted_msg" -> MAX_MESSAGE_SIZE
      [] obj = "decrypted_msg" -> MAX_MESSAGE_SIZE
      [] obj = "AesCtrIV_copied" -> 16
      [] obj = "AesCfbIV_copied" -> 16

(* The two orders in which a toolchain emits the file's statics:           *)
(* declaration order and its reverse.                                      *)
Layouts == {"declaration", "reverse"}

Position(obj) == CHOOSE k \in 1..Len(Objects) : Objects[k] = obj

Neighbour(lay, obj) ==
    LET k == Position(obj)
    IN  IF lay = "declaration"
        THEN IF k < Len(Objects) THEN Objects[k + 1] ELSE "none"
        ELSE IF k > 1 THEN Objects[k - 1] ELSE "none"

Load(M, lay, obj, i) ==
    IF i < Size(obj) THEN M[obj][i]
    ELSE LET n == Neighbour(lay, obj)
         IN  IF n = "none" \/ i - Size(obj) >= Size(n) THEN 0
             ELSE M[n][i - Size(obj)]

LoadBlock(M, lay, obj, off) == [j \in 0..15 |-> Load(M, lay, obj, off + j)]

StoreByte(M, lay, obj, i, v) ==
    IF i < Size(obj) THEN [M EXCEPT ![obj][i] = v]
    ELSE LET n == Neighbour(lay, obj)
         IN  IF n = "none" \/ i - Size(obj) >= Size(n) THEN M
             ELSE [M EXCEPT ![n][i - Size(obj)] = v]

(* Store the 16 bytes blk at obj[off .. off+15]. *)
RECURSIVE StoreBytes(_, _, _, _, _, _)
StoreBytes(M, lay, obj, off, blk, j) ==
    IF j >= 16 THEN M
    ELSE StoreBytes(StoreByte(M, lay, obj, off + j, blk[j]), lay, obj, off, blk, j + 1)

StoreBlock(M, lay, obj, off, blk) ==
    IF off + 16 <= Size(obj)
    THEN [M EXCEPT ![obj] = [@ EXCEPT
             ![off] = blk[0], ![off + 1] = blk[1], ![off + 2] = blk[2],
             ![off + 3] = blk[3], ![off + 4] = blk[4], ![off + 5] = blk[5],
             ![off + 6] = blk[6], ![off + 7] = blk[7], ![off + 8] = blk[8],
             ![off + 9] = blk[9], ![off + 10] = blk[10], ![off + 11] = blk[11],
             ![off + 12] = blk[12], ![off + 13] = blk[13], ![off + 14] = blk[14],
             ![off + 15] = blk[15]]]
    ELSE StoreBytes(M, lay, obj, off, blk, 0)

(***************************************************************************)
(* CTR: keystream_i = E_k(counter); out_i = in_i XOR keystream_i; then the *)
(* counter, held in the caller's IV buffer ivbuf, is incremented.          *)
(***************************************************************************)
RECURSIVE CtrBlocks(_, _, _, _, _, _, _, _)
CtrBlocks(M, lay, key, ivbuf, dst, src, b, nblocks) ==
    IF b >= nblocks THEN M
    ELSE LET ks == EncryptBlock(key, M[ivbuf])
             in == LoadBlock(M, lay, src, 16 * b)
             M1 == StoreBlock(M, lay, dst, 16 * b, XorBlock(in, ks))
             M2 == [M1 EXCEPT ![ivbuf] = Inc128(M1[ivbuf])]
         IN  CtrBlocks(M2, lay, key, ivbuf, dst, src, b + 1, nblocks)

Cy_Cryptolite_Aes_Ctr(M, lay, key, srcSize, ivbuf, dst, src) ==
    CtrBlocks(M, lay, key, ivbuf, dst, src, 0, srcSize \div 16)

(***************************************************************************)
(* CFB-128: keystream_i = E_k(feedback); the feedback register, held in    *)
(* the caller's IV buffer, becomes the ciphertext block produced (encrypt) *)
(* or consumed (decrypt).                                                  *)
(***************************************************************************)
RECURSIVE CfbBlocks(_, _, _, _, _, _, _, _, _)
CfbBlocks(M, lay, key, dir, ivbuf, dst, src, b, nblocks) ==
    IF b >= nblocks THEN M
    ELSE LET ks  == EncryptBlock(key, M[ivbuf])
             in  == LoadBlock(M, lay, src, 16 * b)
             out == XorBlock(in, ks)
             M1  == StoreBlock(M, lay, dst, 16 * b, out)
             M2  == [M1 EXCEPT ![ivbuf] = IF dir = "ENCRYPT" THEN out ELSE in]
         IN  CfbBlocks(M2, lay, key, dir, ivbuf, dst, src, b + 1, nblocks)

Cy_Cryptolite_Aes_Cfb(M, lay, key, dir, srcSize, ivbuf, dst, src) ==
    CfbBlocks(M, lay, key, dir, ivbuf, dst, src, 0, srcSize \div 16)

(***************************************************************************)
(* Execution context of one main-loop step.  X.M holds the arrays, X.calls *)
(* the engine calls made so far in the step, X.tx what the step has        *)
(* printed of its results, X.aes_state the local AES state (the key        *)
(* schedule the last successful Aes_Init derived, indeterminate before),   *)
(* X.halted whether a failed CY_ASSERT stopped the CPU.  P holds what the  *)
(* step cannot choose: the build (P.ndebug: CY_ASSERT compiled out; P.lay: *)
(* the order of the statics), the number of the engine call that fails in  *)
(* this step (P.fail, 0 for none) and the indeterminate content of an      *)
(* uninitialised local (P.garbage).                                        *)
(***************************************************************************)
NoBytes == << >>

Call(op, dir, status, len, key, ivbuf, iv, dst, src) ==
    [op |-> op, dir |-> dir, status |-> status, len |-> len, key |-> key,
     ivbuf |-> ivbuf, iv |-> iv, dst |-> dst, src |-> src]

StatusOfNext(X, P) ==
    IF Len(X.calls) + 1 = P.fail THEN CY_CRYPTOLITE_ERROR ELSE CY_CRYPTOLITE_SUCCESS

(* CY_ASSERT(0): halts the CPU, unless the build defines NDEBUG. *)
CY_ASSERT_0(X, P) == IF P.ndebug THEN X ELSE [X EXCEPT !.halted = TRUE]

Check(X, P, status) ==
    IF status # CY_CRYPTOLITE_SUCCESS THEN CY_ASSERT_0(X, P) ELSE X

(* res = Cy_Cryptolite_Aes_Init(CRYPTOLITE, aes_key, &aes_state, ...);     *)
(* if (res != SUCCESS) CY_ASSERT(0);                                       *)
AesInit(X, P) ==
    IF X.halted THEN X
    ELSE LET st == StatusOfNext(X, P)
             X1 == [X EXCEPT
                      !.calls = Append(@, Call("Aes_Init", "-", st, 0, X.M.aes_key,
                                               "-", NoBytes, "-", "-")),
                      !.aes_state = IF st = CY_CRYPTOLITE_SUCCESS
                                    THEN X.M.aes_key ELSE @]
         IN  Check(X1, P, st)

(* result = memcpy(dstIV, srcIV, sizeof(srcIV)); *)
MemcpyIV(X, dstIV, srcIV) ==
    IF X.halted THEN X ELSE [X EXCEPT !.M[dstIV] = X.M[srcIV]]

(* res = Cy_Cryptolite_Aes_Ctr(CRYPTOLITE, len, &srcOffset, ivbuf, dst,    *)
(* src, &aes_state); if (res != SUCCESS) CY_ASSERT(0);                     *)
AesCtr(X, P, len, ivbuf, dst, src) ==
    IF X.halted THEN X
    ELSE LET st == StatusOfNext(X, P)
             X1 == [X EXCEPT
                      !.calls = Append(@, Call("Aes_Ctr", "-", st, len, X.aes_state,
                                               ivbuf, X.M[ivbuf], dst, src)),
                      !.M = IF st = CY_CRYPTOLITE_SUCCESS
                            THEN Cy_Cryptolite_Aes_Ctr(X.M, P.lay, X.aes_state,
                                                       len, ivbuf, dst, src)
                            ELSE @]
         IN  Check(X1, P, st)

(* res = Cy_Cryptolite_Aes_Cfb(CRYPTOLITE, dir, len, ivbuf, dst, src,      *)
(* &aes_state); if (res != SUCCESS) CY_ASSERT(0);                          *)
AesCfb(X, P, dir, len, ivbuf, dst, src) ==
    IF X.halted THEN X
    ELSE LET st == StatusOfNext(X, P)
             X1 == [X EXCEPT
                      !.calls = Append(@, Call("Aes_Cfb", dir, st, len, X.aes_state,
                                               ivbuf, X.M[ivbuf], dst, src)),
                      !.M = IF st = CY_CRYPTOLITE_SUCCESS
                            THEN Cy_Cryptolite_Aes_Cfb(X.M, P.lay, X.aes_state, dir,
                                                       len, ivbuf, dst, src)
                            ELSE @]
         IN  Check(X1, P, st)

(* A wrapper that never calls Cy_Cryptolite_Aes_Free. *)
AesFree_none(X, P) == X

(* res = Cy_Cryptolite_Aes_Free(CRYPTOLITE, &aes_state);                   *)
(* if (res != SUCCESS) CY_ASSERT(0);                                       *)
AesFree(X, P) ==
    IF X.halted THEN X
    ELSE LET st == StatusOfNext(X, P)
             X1 == [X EXCEPT
                      !.calls = Append(@, Call("Aes_Free", "-", st, 0, X.aes_state,
                                               "-", NoBytes, "-", "-"))]
         IN  Check(X1, P, st)

(* print_data(data, len): len is a uint8_t; the bytes data[0 .. len-1]. *)
print_data(X, P, kind, obj, len) ==
    IF X.halted THEN X
    ELSE LET n == len % 256
         IN  [X EXCEPT !.tx = Append(@, [kind |-> kind,
                 data |-> [i \in 1..n |-> Load(X.M, P.lay, obj, i - 1)]])]

(* The bytes printf("%s", obj) prints: those before the first NUL. *)
CString(M, lay, obj) ==
    LET limit == Size(obj) + 16
        n == CHOOSE i \in 0..limit :
                 /\ i = limit \/ Load(M, lay, obj, i) = 0
                 /\ \A j \in 0..(i - 1) : Load(M, lay, obj, j) # 0
    IN  [i \in 1..n |-> Load(M, lay, obj, i - 1)]

(* decrypted_msg[size] = '\0'; printf("%s", decrypted_msg); *)
TerminateAndPrint(X, P, size) ==
    IF X.halted THEN X
    ELSE LET M1 == StoreByte(X.M, P.lay, "decrypted_msg", size, 0)
         IN  [X EXCEPT !.M = M1,
                       !.tx = Append(@, [kind |-> "decrypted",
                                         data |-> CString(M1, P.lay, "decrypted_msg")])]

(* A block count that always adds a padding block. *)
BlockCount_extra(size) == 1 + (size \div AES128_ENCRYPTION_LENGTH)

(* aes_block_count = (size % 16 == 0) ? (size / 16) : (1 + size / 16); *)
BlockCount(size) ==
    IF size % AES128_ENCRYPTION_LENGTH = 0
    THEN size \div AES128_ENCRYPTION_LENGTH
    ELSE 1 + (size \div AES128_ENCRYPTION_LENGTH)

EnterFunction(X, P) == IF X.halted THEN X ELSE [X EXCEPT !.aes_state = P.garbage]

(* encrypt_message_ctr without the memcpy that resets the IV copy. *)
encrypt_message_ctr_noiv(X, size, P) ==
    LET len == BlockCount(size) * AES128_ENCRYPTION_LENGTH
        X0 == EnterFunction(X, P)
        X1 == AesInit(X0, P)
        X3 == AesCtr(X1, P, len, "AesCtrIV_copied", "encrypted_msg", "message")
        X4 == AesFree(X3, P)
    IN  print_data(X4, P, "encrypted", "encrypted_msg", len)

encrypt_message_ctr(X, size, P) ==
    LET len == BlockCount(size) * AES128_ENCRYPTION_LENGTH
        X0 == EnterFunction(X, P)
        X1 == AesInit(X0, P)
        X2 == MemcpyIV(X1, "AesCtrIV_copied", "AesCtrIV")
        X3 == AesCtr(X2, P, len, "AesCtrIV_copied", "encrypted_msg", "message")
        X4 == AesFree(X3, P)
    IN  print_data(X4, P, "encrypted", "encrypted_msg", len)

(* decrypt_message_ctr without the memcpy that resets the IV copy. *)
decrypt_message_ctr_noiv(X, size, P) ==
    LET len == BlockCount(size) * AES128_ENCRYPTION_LENGTH
        X0 == EnterFunction(X, P)
        X1 == AesInit(X0, P)
        X3 == AesCtr(X1, P, len, "AesCtrIV_copied", "decrypted_msg", "encrypted_msg")
        X4 == AesFree(X3, P)
    IN  TerminateAndPrint(X4, P, size)

decrypt_message_ctr(X, size, P) ==
    LET len == BlockCount(size) * AES128_ENCRYPTION_LENGTH
        X0 == EnterFunction(X, P)
        X1 == AesInit(X0, P)
        X2 == MemcpyIV(X1, "AesCtrIV_copied", "AesCtrIV")
        X3 == AesCtr(X2, P, len, "AesCtrIV_copied", "decrypted_msg", "encrypted_msg")
        X4 == AesFree(X3, P)
    IN  TerminateAndPrint(X4, P, size)

(* encrypt_message_cfb handing the canonical IV itself to the engine. *)
encrypt_message_cfb_inplace(X, size, P) ==
    LET len == BlockCount(size) * AES128_ENCRYPTION_LENGTH
        X0 == EnterFunction(X, P)
        X1 == AesInit(X0, P)
        X3 == AesCfb(X1, P, "ENCRYPT", len, "AesCfbIV", "encrypted_msg", "message")
        X4 == AesFree(X3, P)
    IN  print_data(X4, P, "encrypted", "encrypted_msg", len)

encrypt_message_cfb(X, size, P) ==
    LET len == BlockCount(size) * AES128_ENCRYPTION_LENGTH
        X0 == EnterFunction(X, P)
        X1 == AesInit(X0, P)
        X2 == MemcpyIV(X1, "AesCfbIV_copied", "AesCfbIV")
        X3 == AesCfb(X2, P, "ENCRYPT", len, "AesCfbIV_copied", "encrypted_msg", "message")
        X4 == AesFree(X3, P)
    IN  print_data(X4, P, "encrypted", "encrypted_msg", len)

(* decrypt_message_cfb without the memcpy that resets the IV copy. *)
decrypt_message_cfb_noiv(X, size, P) ==
    LET len == BlockCount(size) * AES128_ENCRYPTION_LENGTH
        X0 == EnterFunction(X, P)
        X1 == AesInit(X0, P)
        X3 == AesCfb(X1, P, "DECRYPT", len, "AesCfbIV_copied", "decrypted_msg", "encrypted_msg")
        X4 == AesFree(X3, P)
    IN  TerminateAndPrint(X4, P, size)

decrypt_message_cfb(X, size, P) ==
    LET len == BlockCount(size) * AES128_ENCRYPTION_LENGTH
        X0 == EnterFunction(X, P)
        X1 == AesInit(X0, P)
        X2 == MemcpyIV(X1, "AesCfbIV_copied", "AesCfbIV")
        X3 == AesCfb(X2, P, "DECRYPT", len, "AesCfbIV_copied", "decrypted_msg", "encrypted_msg")
        X4 == AesFree(X3, P)
    IN  TerminateAndPrint(X4, P, size)

(***************************************************************************)
(* generate_password.  G.password is the local array password[9],          *)
(* G.writes the indices written to it in order, G.random_val the local     *)
(* random_val (indeterminate until the first successful draw), G.draws the *)
(* values the TRNG delivers in this call, in order.                        *)
(***************************************************************************)
(* check_range comparing with <= instead of <. *)
check_range_le(value) ==
    IF value <= ASCII_VISIBLE_CHARACTER_START
    THEN (value + ASCII_VISIBLE_CHARACTER_START) % 256
    ELSE value

check_range(value) ==
    IF value < ASCII_VISIBLE_CHARACTER_START
    THEN (value + ASCII_VISIBLE_CHARACTER_START) % 256
    ELSE value

RECURSIVE Pow2(_)
Pow2(n) == IF n = 0 THEN 1 ELSE 2 * Pow2(n - 1)

(* A uint32_t is held as its two 16-bit halves. *)
Word32(hi, lo) == [hi |-> hi, lo |-> lo]

ZeroWord == Word32(0, 0)

(* v >> n, for a uint32_t v. *)
ShiftRight32(v, n) ==
    IF n >= 32 THEN ZeroWord
    ELSE IF n >= 16 THEN Word32(0, v.hi \div Pow2(n - 16))
    ELSE Word32(v.hi \div Pow2(n),
                (v.lo \div Pow2(n)) + (v.hi % Pow2(n)) * Pow2(16 - n))

(* v & mask, for a mask below 2^16. *)
And32(v, mask) == And(v.lo, mask)

(* The byte loop running once too often (j <= 4). *)
RECURSIVE ByteLoop_five(_, _, _)
ByteLoop_five(G, j, bit_position) ==
    IF j > 4 THEN G
    ELSE LET temp_value == check_range(
                 And32(ShiftRight32(G.random_val, bit_position), ASCII_7BIT_MASK) % 256)
             G1 == [G EXCEPT
                      !.password = IF G.index \in DOMAIN @
                                   THEN [@ EXCEPT ![G.index] = temp_value] ELSE @,
                      !.writes = Append(@, G.index),
                      !.index = @ + 1]
         IN  ByteLoop_five(G1, j + 1, (bit_position + 8) % 256)

(* for (int8_t j = 0; j < 4; j++) { temp_value = (random_val >>            *)
(* bit_position) & ASCII_7BIT_MASK; temp_value = check_range(temp_value);  *)
(* password[index++] = temp_value; bit_position = bit_position + 8; }      *)
RECURSIVE ByteLoop(_, _, _)
ByteLoop(G, j, bit_position) ==
    IF j >= 4 THEN G
    ELSE LET temp_value == check_range(
                 And32(ShiftRight32(G.random_val, bit_position), ASCII_7BIT_MASK) % 256)
             G1 == [G EXCEPT
                      !.password = IF G.index \in DOMAIN @
                                   THEN [@ EXCEPT ![G.index] = temp_value] ELSE @,
                      !.writes = Append(@, G.index),
                      !.index = @ + 1]
         IN  ByteLoop(G1, j + 1, (bit_position + 8) % 256)

(* for (index = 0; index < PASSWORD_LENGTH;) { cryptolite_status =         *)
(* Cy_Cryptolite_Trng(CRYPTOLITE, &random_val); if (status != SUCCESS)     *)
(* CY_ASSERT(0); ... }                                                     *)
RECURSIVE DrawLoop(_, _)
DrawLoop(G, P) ==
    IF G.X.halted \/ G.index >= PASSWORD_LENGTH THEN G
    ELSE LET st == StatusOfNext(G.X, P)
             k  == G.ndraws + 1
             r  == G.draws[((k - 1) % Len(G.draws)) + 1]
             X1 == [G.X EXCEPT !.calls = Append(@, Call("Trng", "-", st, 0, NoBytes,
                                                        "-", NoBytes, "-", "-"))]
             X2 == Check(X1, P, st)
             G1 == [G EXCEPT !.X = X2, !.ndraws = k,
                             !.random_val = IF st = CY_CRYPTOLITE_SUCCESS THEN r ELSE @]
         IN  IF X2.halted THEN G1 ELSE DrawLoop(ByteLoop(G1, 0, 0), P)

(* The bytes printf("%s", password) prints. *)
RECURSIVE PasswordString(_, _)
PasswordString(pw, i) ==
    IF i \notin DOMAIN pw \/ pw[i] = 0 THEN << >>
    ELSE <<pw[i]>> \o PasswordString(pw, i + 1)

generate_password(X, P, draws) ==
    LET st == StatusOfNext(X, P)
        X1 == [X EXCEPT !.calls = Append(@, Call("Trng_Init", "-", st, 0, NoBytes,
                                                 "-", NoBytes, "-", "-"))]
        G0 == [X |-> X1, password |-> Zeros(PASSWORD_LENGTH + 1), writes |-> << >>,
               index |-> 0, random_val |-> P.garbage32, draws |-> draws, ndraws |-> 0]
    IN  IF st # CY_CRYPTOLITE_SUCCESS THEN G0
        ELSE LET G1 == DrawLoop(G0, P)
             IN  IF G1.X.halted THEN G1
                 ELSE LET pw == IF G1.index \in DOMAIN G1.password
                                THEN [G1.password EXCEPT ![G1.index] = 0]
                                ELSE G1.password
                      IN  [G1 EXCEPT
                             !.password = pw,
                             !.writes = Append(@, G1.index),
                             !.X.tx = Append(@, [kind |-> "password",
                                                 data |-> PasswordString(pw, 0)])]

(***************************************************************************)
(* message_ready: the operation the mode selects, on the context X.        *)
(***************************************************************************)
(* The hash run over the message and its terminator. *)
Sha256Run_terminated(X, P, size) ==
    LET st == StatusOfNext(X, P)
        X1 == [X EXCEPT
                 !.calls = Append(@, Call("Sha256_Run", "-", st, size + 1, NoBytes,
                                          "-", NoBytes, "hash", "message")),
                 !.M.hash = IF st = CY_CRYPTOLITE_SUCCESS
                            THEN Sha256([i \in 1..(size + 1) |->
                                            Load(X.M, P.lay, "message", i - 1)])
                            ELSE @]
    IN  IF st = CY_CRYPTOLITE_SUCCESS
        THEN print_data(X1, P, "hash", "hash", CRYPTOLITE_MESSAGE_DIGEST_SIZE)
        ELSE CY_ASSERT_0(X1, P)

Sha256Run(X, P, size) ==
    LET st == StatusOfNext(X, P)
        X1 == [X EXCEPT
                 !.calls = Append(@, Call("Sha256_Run", "-", st, size, NoBytes,
                                          "-", NoBytes, "hash", "message")),
                 !.M.hash = IF st = CY_CRYPTOLITE_SUCCESS
                            THEN Sha256([i \in 1..size |-> Load(X.M, P.lay, "message", i - 1)])
                            ELSE @]
    IN  IF st = CY_CRYPTOLITE_SUCCESS
        THEN print_data(X1, P, "hash", "hash", CRYPTOLITE_MESSAGE_DIGEST_SIZE)
        ELSE CY_ASSERT_0(X1, P)

RunMode(X, m, size, P) ==
    IF m = 1 THEN decrypt_message_ctr(encrypt_message_ctr(X, size, P), size, P)
    ELSE IF m = 2 THEN decrypt_message_cfb(encrypt_message_cfb(X, size, P), size, P)
    ELSE IF m = 3 THEN Sha256Run(X, P, size)
    ELSE X

(* The number of engine calls the operation of mode m makes. *)
EngineCalls(m) == IF m \in {1, 2} THEN 6 ELSE IF m = 3 THEN 1 ELSE 0

(***************************************************************************)
(* Bounds of the exploration: what the terminal user and the environment   *)
(* do in one run.                                                          *)
(***************************************************************************)
(* One long session: ordinary keystrokes, backspaces. *)
MaxKeys == 101
MaxBackspaces == 1
(* Several short sessions, with engine failures. *)
MaxSessions == 2
MaxShortKeys == 3
MaxShortBackspaces == 1
MaxFaults == 1
(* Password generation: the TRNG delivers DrawWord(0 .. MaxDraw). *)
MaxDraw == 15
(* One short session typed with two different characters. *)
MaxEditKeys == 2
MaxEditOthers == 2
MaxEditBackspaces == 2
(* Short sessions under fair scheduling, with engine failures. *)
MaxLiveSessions == 1
MaxLiveKeys == 2
MaxLiveBackspaces == 1

(* The character the user types. *)
Chars == {65}

(* A second character, for lines whose order of characters matters. *)
OtherChars == {66}

(* A menu key that is none of '1' .. '4'. *)
OtherKeys == {120}

SampleByte(n) ==
    LET base == <<0, 32, 33, 126, 127, 1, 65, 96>>[(n % 8) + 1]
    IN  base + 128 * ((n \div 8) % 2)

(* A 32-bit TRNG value; its byte j (least significant first) is            *)
(* SampleByte(k + 4j).                                                     *)
DrawWord(k) ==
    Word32(SampleByte(k + 8) + 256 * SampleByte(k + 12),
           SampleByte(k) + 256 * SampleByte(k + 4))

Draws == {DrawWord(k) : k \in 0..MaxDraw}

(* What an uninitialised AES state can hold as its key schedule, and an    *)
(* uninitialised random_val as its value.                                  *)
UninitKeys == {Zeros(16), aes_key_init}

UninitWords == {ZeroWord, DrawWord(4)}

(***************************************************************************)
(* State.                                                                  *)
(***************************************************************************)
VARIABLES
    msg_status, msg_size, mode,         \* the driver's state machine
    dst_cmd,                            \* the key message_menu received last
    hash, message, encrypted_msg, decrypted_msg,
    aes_key, AesCtrIV, AesCtrIV_copied, AesCfbIV, AesCfbIV_copied,
    ndebug,                             \* the build defines NDEBUG
    layout,                             \* the order of the statics in memory
    halted,                             \* a failed CY_ASSERT stopped the CPU
    calls,                              \* engine calls of the last step
    tx,                                 \* results the last step printed
    entered,                            \* what the last message_ready was given
    trng,                               \* the last generate_password's locals
    line,                               \* the line the keystrokes of this entry spell
    budget                              \* what the environment may still do

arrays == <<hash, message, encrypted_msg, decrypted_msg,
            aes_key, AesCtrIV, AesCtrIV_copied, AesCfbIV, AesCfbIV_copied>>

vars == <<msg_status, msg_size, mode, dst_cmd, arrays, ndebug, layout, halted,
          calls, tx, entered, trng, line, budget>>

Memory ==
    [hash |-> hash, message |-> message, encrypted_msg |-> encrypted_msg,
     decrypted_msg |-> decrypted_msg, aes_key |-> aes_key,
     AesCtrIV |-> AesCtrIV, AesCtrIV_copied |-> AesCtrIV_copied,
     AesCfbIV |-> AesCfbIV, AesCfbIV_copied |-> AesCfbIV_copied]

SetMemory(M) ==
    /\ hash' = M.hash
    /\ message' = M.message
    /\ encrypted_msg' = M.encrypted_msg
    /\ decrypted_msg' = M.decrypted_msg
    /\ aes_key' = M.aes_key
    /\ AesCtrIV' = M.AesCtrIV
    /\ AesCtrIV_copied' = M.AesCtrIV_copied
    /\ AesCfbIV' = M.AesCfbIV
    /\ AesCfbIV_copied' = M.AesCfbIV_copied

Context == [M |-> Memory, calls |-> << >>, tx |-> << >>,
            aes_state |-> Zeros(16), halted |-> FALSE]

NoEntered == [mode |-> 0, size |-> 0, message |-> << >>]

NoTrng == [password |-> << >>, writes |-> << >>, draws |-> << >>, ndraws |-> 0]

InitWith(b) ==
    /\ msg_status = MENU
    /\ msg_size = 0
    /\ mode = 0
    /\ dst_cmd = 0
    /\ hash = Zeros(CRYPTOLITE_MESSAGE_DIGEST_SIZE)
    /\ message = Zeros(MAX_MESSAGE_SIZE)
    /\ encrypted_msg = Zeros(MAX_MESSAGE_SIZE)
    /\ decrypted_msg = Zeros(MAX_MESSAGE_SIZE)
    /\ aes_key = aes_key_init
    /\ AesCtrIV = AesCtrIV_init
    /\ AesCtrIV_copied = Zeros(16)
    /\ AesCfbIV = AesCfbIV_init
    /\ AesCfbIV_copied = Zeros(16)
    /\ ndebug \in BOOLEAN
    /\ layout \in Layouts
    /\ halted = FALSE
    /\ calls = << >>
    /\ tx = << >>
    /\ entered = NoEntered
    /\ trng = NoTrng
    /\ line = << >>
    /\ budget = b

Budget(sessions, keys, backspaces, faults, passwords) ==
    [sessions |-> sessions, keys |-> keys, backspaces |-> backspaces,
     faults |-> faults, passwords |-> passwords, others |-> 0]

(* The engine call that fails in a step making n engine calls: 0 for none. *)
FaultChoices(n) == IF budget.faults > 0 THEN 0..n ELSE {0}

Parameters(fail, garbage, garbage32) ==
    [ndebug |-> ndebug, lay |-> layout, fail |-> fail,
     garbage |-> garbage, garbage32 |-> garbage32]

(***************************************************************************)
(* message_menu: blocks until a key arrives, then acts on it.              *)
(***************************************************************************)
MenuKeys ==
    (IF budget.sessions > 0
     THEN {CRYPTOLITE_AES_CTR, CRYPTOLITE_AES_CFB, CRYPTOLITE_SHA_256} ELSE {})
    \cup (IF budget.passwords > 0 THEN {CRYPTOLITE_TRNG} ELSE {})
    \cup OtherKeys

(* A menu that selects mode 1 whatever the key. *)
SelectMode_one(m) ==
    /\ mode' = 1
    /\ msg_status' = MESSAGE_ENTER_NEW
    /\ budget' = [budget EXCEPT !.sessions = @ - 1]
    /\ calls' = << >>
    /\ tx' = << >>
    /\ trng' = NoTrng
    /\ UNCHANGED halted

SelectMode(m) ==
    /\ mode' = m
    /\ msg_status' = MESSAGE_ENTER_NEW
    /\ budget' = [budget EXCEPT !.sessions = @ - 1]
    /\ calls' = << >>
    /\ tx' = << >>
    /\ trng' = NoTrng
    /\ UNCHANGED halted

RunPassword ==
    \E fail \in FaultChoices(3) :
    \E draws \in Draws \X Draws :
    \E g32 \in (IF fail = 2 /\ ndebug THEN UninitWords ELSE {ZeroWord}) :
    \E G \in {generate_password(Context, Parameters(fail, Zeros(16), g32), draws)} :
            /\ calls' = G.X.calls
            /\ tx' = G.X.tx
            /\ halted' = G.X.halted
            /\ trng' = [password |-> G.password, writes |-> G.writes,
                        draws |-> draws, ndraws |-> G.ndraws]
            /\ budget' = [budget EXCEPT !.passwords = @ - 1,
                                        !.faults = IF fail = 0 THEN @ ELSE @ - 1]
            /\ UNCHANGED <<mode, msg_status>>

message_menu ==
    /\ ~halted
    /\ msg_status = MENU
    /\ \E key \in MenuKeys :
          /\ dst_cmd' = key
          /\ IF key = CRYPTOLITE_AES_CTR THEN SelectMode(1)
             ELSE IF key = CRYPTOLITE_AES_CFB THEN SelectMode(2)
             ELSE IF key = CRYPTOLITE_SHA_256 THEN SelectMode(3)
             ELSE IF key = CRYPTOLITE_TRNG THEN RunPassword
             ELSE /\ calls' = << >>
                  /\ tx' = << >>
                  /\ trng' = NoTrng
                  /\ UNCHANGED <<mode, msg_status, halted, budget>>
    /\ entered' = NoEntered
    /\ line' = << >>
    /\ UNCHANGED <<msg_size, arrays, ndebug, layout>>

(***************************************************************************)
(* enter_message: one cyhal_uart_getc into message[msg_size], which either *)
(* times out or delivers a byte.                                           *)
(***************************************************************************)
EnterKeys ==
    {CR, LF}
    \cup (IF budget.keys > 0 THEN Chars ELSE {})
    \cup (IF budget.others > 0 THEN OtherChars ELSE {})
    \cup (IF budget.backspaces > 0 THEN {BACKSPACE} ELSE {})

(* The line a keystroke makes of a line: a character is appended, a       *)
(* backspace removes the last character (none of an empty line).          *)
Edit(l, c) ==
    IF c # BACKSPACE THEN Append(l, c)
    ELSE IF Len(l) > 0 THEN SubSeq(l, 1, Len(l) - 1) ELSE l

Spend(c) ==
    IF c = BACKSPACE THEN [budget EXCEPT !.backspaces = @ - 1]
    ELSE IF c \in OtherChars THEN [budget EXCEPT !.others = @ - 1]
    ELSE [budget EXCEPT !.keys = @ - 1]

(* enter_message comparing msg_size with MAX_MESSAGE_SIZE itself. *)
ReceiveChar_offbyone(c) ==
    LET m1 == [message EXCEPT ![msg_size] = c]
    IN  IF c = CR \/ c = LF
        THEN /\ message' = [m1 EXCEPT ![msg_size] = 0]
             /\ msg_status' = MESSAGE_READY
             /\ UNCHANGED <<msg_size, budget, line>>
        ELSE LET size1 == IF c # BACKSPACE THEN (msg_size + 1) % 256
                          ELSE IF msg_size > 0 THEN msg_size - 1 ELSE msg_size
             IN  /\ budget' = Spend(c)
                 /\ IF size1 > MAX_MESSAGE_SIZE
                    THEN /\ msg_status' = MESSAGE_ENTER_NEW
                         /\ message' = Zeros(MAX_MESSAGE_SIZE)
                         /\ msg_size' = 0
                         /\ line' = << >>
                    ELSE /\ message' = m1
                         /\ msg_size' = size1
                         /\ line' = Edit(line, c)
                         /\ UNCHANGED msg_status

(* enter_message without the memset on an over-long message. *)
ReceiveChar_noclear(c) ==
    LET m1 == [message EXCEPT ![msg_size] = c]
    IN  IF c = CR \/ c = LF
        THEN /\ message' = [m1 EXCEPT ![msg_size] = 0]
             /\ msg_status' = MESSAGE_READY
             /\ UNCHANGED <<msg_size, budget, line>>
        ELSE LET size1 == IF c # BACKSPACE THEN (msg_size + 1) % 256
                          ELSE IF msg_size > 0 THEN msg_size - 1 ELSE msg_size
             IN  /\ budget' = Spend(c)
                 /\ IF size1 > MAX_MESSAGE_SIZE - 1
                    THEN /\ msg_status' = MESSAGE_ENTER_NEW
                         /\ message' = m1
                         /\ msg_size' = 0
                         /\ line' = << >>
                    ELSE /\ message' = m1
                         /\ msg_size' = size1
                         /\ line' = Edit(line, c)
                         /\ UNCHANGED msg_status

(* enter_message counting a backspace as a character. *)
ReceiveChar_nobackspace(c) ==
    LET m1 == [message EXCEPT ![msg_size] = c]
    IN  IF c = CR \/ c = LF
        THEN /\ message' = [m1 EXCEPT ![msg_size] = 0]
             /\ msg_status' = MESSAGE_READY
             /\ UNCHANGED <<msg_size, budget, line>>
        ELSE LET size1 == (msg_size + 1) % 256
             IN  /\ budget' = Spend(c)
                 /\ IF size1 > MAX_MESSAGE_SIZE - 1
                    THEN /\ msg_status' = MESSAGE_ENTER_NEW
                         /\ message' = Zeros(MAX_MESSAGE_SIZE)
                         /\ msg_size' = 0
                         /\ line' = << >>
                    ELSE /\ message' = m1
                         /\ msg_size' = size1
                         /\ line' = Edit(line, c)
                         /\ UNCHANGED msg_status

(* enter_message ending the line on CR only. *)
ReceiveChar_cronly(c) ==
    LET m1 == [message EXCEPT ![msg_size] = c]
    IN  IF c = CR
        THEN /\ message' = [m1 EXCEPT ![msg_size] = 0]
             /\ msg_status' = MESSAGE_READY
             /\ UNCHANGED <<msg_size, budget, line>>
        ELSE LET size1 == IF c # BACKSPACE THEN (msg_size + 1) % 256
                          ELSE IF msg_size > 0 THEN msg_size - 1 ELSE msg_size
             IN  /\ budget' = Spend(c)
                 /\ IF size1 > MAX_MESSAGE_SIZE - 1
                    THEN /\ msg_status' = MESSAGE_ENTER_NEW
                         /\ message' = Zeros(MAX_MESSAGE_SIZE)
                         /\ msg_size' = 0
                         /\ line' = << >>
                    ELSE /\ message' = m1
                         /\ msg_size' = size1
                         /\ line' = Edit(line, c)
                         /\ UNCHANGED msg_status

ReceiveChar(c) ==
    LET m1 == [message EXCEPT ![msg_size] = c]
    IN  IF c = CR \/ c = LF
        THEN /\ message' = [m1 EXCEPT ![msg_size] = 0]
             /\ msg_status' = MESSAGE_READY
             /\ UNCHANGED <<msg_size, budget, line>>
        ELSE LET size1 == IF c # BACKSPACE THEN (msg_size + 1) % 256
                          ELSE IF msg_size > 0 THEN msg_size - 1 ELSE msg_size
             IN  /\ budget' = Spend(c)
                 /\ IF size1 > MAX_MESSAGE_SIZE - 1
                    THEN /\ msg_status' = MESSAGE_ENTER_NEW
                         /\ message' = Zeros(MAX_MESSAGE_SIZE)
                         /\ msg_size' = 0
                         /\ line' = << >>
                    ELSE /\ message' = m1
                         /\ msg_size' = size1
                         /\ line' = Edit(line, c)
                         /\ UNCHANGED msg_status

Timeout == UNCHANGED <<message, msg_size, msg_status, budget, line>>

enter_message ==
    /\ ~halted
    /\ msg_status = MESSAGE_ENTER_NEW
    /\ \/ Timeout
       \/ \E c \in EnterKeys : ReceiveChar(c)
    /\ UNCHANGED <<mode, dst_cmd, hash, encrypted_msg, decrypted_msg, aes_key, AesCtrIV,
                   AesCtrIV_copied, AesCfbIV, AesCfbIV_copied, ndebug, layout,
                   halted, calls, tx, entered, trng>>

(* message_ready that does not set msg_status. *)
message_ready_stay ==
    /\ ~halted
    /\ msg_status = MESSAGE_READY
    /\ \E fail \in FaultChoices(EngineCalls(mode)) :
       \E g \in (IF fail \in {1, 4} /\ ndebug /\ mode \in {1, 2}
                 THEN UninitKeys ELSE {Zeros(16)}) :
       \E X \in {RunMode(Context, mode, msg_size, Parameters(fail, g, ZeroWord))} :
              /\ calls' = X.calls
              /\ tx' = X.tx
              /\ halted' = X.halted
              /\ budget' = [budget EXCEPT !.faults = IF fail = 0 THEN @ ELSE @ - 1]
              /\ IF X.halted
                 THEN /\ SetMemory(X.M)
                      /\ UNCHANGED <<msg_status, msg_size>>
                 ELSE /\ UNCHANGED msg_status
                      /\ SetMemory([X.M EXCEPT !.message = Zeros(MAX_MESSAGE_SIZE)])
                      /\ msg_size' = 0
    /\ entered' = [mode |-> mode, size |-> msg_size, message |-> message]
    /\ trng' = NoTrng
    /\ UNCHANGED <<mode, dst_cmd, ndebug, layout, line>>

(* message_ready without the memset of the message. *)
message_ready_noclear ==
    /\ ~halted
    /\ msg_status = MESSAGE_READY
    /\ \E fail \in FaultChoices(EngineCalls(mode)) :
       \E g \in (IF fail \in {1, 4} /\ ndebug /\ mode \in {1, 2}
                 THEN UninitKeys ELSE {Zeros(16)}) :
       \E X \in {RunMode(Context, mode, msg_size, Parameters(fail, g, ZeroWord))} :
              /\ calls' = X.calls
              /\ tx' = X.tx
              /\ halted' = X.halted
              /\ budget' = [budget EXCEPT !.faults = IF fail = 0 THEN @ ELSE @ - 1]
              /\ IF X.halted
                 THEN /\ SetMemory(X.M)
                      /\ UNCHANGED <<msg_status, msg_size>>
                 ELSE /\ msg_status' = MENU
                      /\ SetMemory(X.M)
                      /\ msg_size' = 0
    /\ entered' = [mode |-> mode, size |-> msg_size, message |-> message]
    /\ trng' = NoTrng
    /\ UNCHANGED <<mode, dst_cmd, ndebug, layout, line>>

(***************************************************************************)
(* message_ready: run the selected operation, then clear the message and   *)
(* return to the menu.                                                     *)
(***************************************************************************)
message_ready ==
    /\ ~halted
    /\ msg_status = MESSAGE_READY
    /\ \E fail \in FaultChoices(EngineCalls(mode)) :
       \E g \in (IF fail \in {1, 4} /\ ndebug /\ mode \in {1, 2}
                 THEN UninitKeys ELSE {Zeros(16)}) :
       \E X \in {RunMode(Context, mode, msg_size, Parameters(fail, g, ZeroWord))} :
              /\ calls' = X.calls
              /\ tx' = X.tx
              /\ halted' = X.halted
              /\ budget' = [budget EXCEPT !.faults = IF fail = 0 THEN @ ELSE @ - 1]
              /\ IF X.halted
                 THEN /\ SetMemory(X.M)
                      /\ UNCHANGED <<msg_status, msg_size>>
                 ELSE /\ msg_status' = MENU
                      /\ SetMemory([X.M EXCEPT !.message = Zeros(MAX_MESSAGE_SIZE)])
                      /\ msg_size' = 0
    /\ entered' = [mode |-> mode, size |-> msg_size, message |-> message]
    /\ trng' = NoTrng
    /\ UNCHANGED <<mode, dst_cmd, ndebug, layout, line>>

Next == message_menu \/ enter_message \/ message_ready

(* One long session. *)
Init == InitWith(Budget(1, MaxKeys, MaxBackspaces, 0, 0))

Spec == Init /\ [][Next]_vars

(* Several short sessions in which an engine call can fail. *)
InitSessions ==
    InitWith(Budget(MaxSessions, MaxShortKeys, MaxShortBackspaces, MaxFaults, 0))

SpecSessions == InitSessions /\ [][Next]_vars

(* One password generation at the menu, in which a TRNG call can fail      *)
(* (generate_password keeps nothing between two calls).                    *)
InitTrng == InitWith(Budget(0, 0, 0, MaxFaults, 1))

SpecTrng == InitTrng /\ [][message_menu]_vars

(* One short session typed with two different characters. *)
InitEdit ==
    InitWith([Budget(1, MaxEditKeys, MaxEditBackspaces, 0, 0)
                 EXCEPT !.others = MaxEditOthers])

SpecEdit == InitEdit /\ [][Next]_vars

(* Short sessions in which the main loop keeps running and the user      *)
(* sooner or later presses Enter.  for (;;) calls the handler of the      *)
(* current msg_status again and again, and message_ready reads no input,  *)
(* so message_ready is weakly fair: MainLoopRuns is WF_vars(message_ready)*)
(* with ENABLED <<message_ready>>_vars written out as the guard of        *)
(* message_ready, every step of which changes msg_status or halted.       *)
(* Pressing Enter is the assumption made about the user.                  *)
InitLive ==
    InitWith(Budget(MaxLiveSessions, MaxLiveKeys, MaxLiveBackspaces, MaxFaults, 0))

EnterPressed == enter_message /\ msg_status' = MESSAGE_READY

ReadyToRun == ~halted /\ msg_status = MESSAGE_READY

MainLoopRuns == []<>~ReadyToRun \/ []<><<message_ready>>_vars

SpecLive ==
    InitLive /\ [][Next]_vars /\ WF_vars(EnterPressed) /\ MainLoopRuns

(* All of the above. *)
InitAll == Init \/ InitSessions \/ InitTrng

SpecAll == InitAll /\ [][Next]_vars

(***************************************************************************)
(* Properties.                                                             *)
(***************************************************************************)
Succeeded == \A k \in DOMAIN calls : calls[k].status = CY_CRYPTOLITE_SUCCESS

CipherCalls == {k \in DOMAIN calls : calls[k].op \in {"Aes_Ctr", "Aes_Cfb"}}

(* The last step was a message_ready that ran mode m to its end. *)
Ran(m) == entered.mode = m /\ msg_status = MENU /\ ~halted

(* C1: the length blockCount*16 handed to the CTR and CFB engines never    *)
(* exceeds the capacity of the source and the destination buffer.          *)
C1_LengthWithinBuffers ==
    \A k \in CipherCalls :
        /\ calls[k].len <= Size(calls[k].src)
        /\ calls[k].len <= Size(calls[k].dst)

(* C2: after a CTR session whose engine calls succeeded, the first         *)
(* msg_size bytes of decrypted_msg are those of the entered message and    *)
(* decrypted_msg[msg_size] is the terminator.                              *)
C2_CtrRoundTrip ==
    (Ran(1) /\ Succeeded) =>
        /\ \A i \in 0..(entered.size - 1) : decrypted_msg[i] = entered.message[i]
        /\ decrypted_msg[entered.size] = 0

C2_Witness ==
    /\ Ran(1) /\ Succeeded /\ Len(calls) = 6
    /\ entered.size = MAX_MESSAGE_SIZE - 1
    /\ entered.message[0] \in Chars

(* C3: after a CFB session whose engine calls succeeded, the first         *)
(* msg_size bytes of decrypted_msg are those of the entered message; both  *)
(* directions start from the same IV, and the feedback register ends as    *)
(* the last ciphertext block.                                              *)
C3_CfbRoundTrip ==
    (Ran(2) /\ Succeeded) =>
        /\ \A i \in 0..(entered.size - 1) : decrypted_msg[i] = entered.message[i]
        /\ calls[2].iv = calls[5].iv
        /\ (calls[5].len >= 16 /\ calls[5].len <= MAX_MESSAGE_SIZE) =>
              \A j \in 0..15 :
                  AesCfbIV_copied[j] = encrypted_msg[calls[5].len - 16 + j]

C3_Witness ==
    /\ Ran(2) /\ Succeeded /\ Len(calls) = 6
    /\ entered.size = MAX_MESSAGE_SIZE - 1
    /\ entered.message[0] \in Chars

(* C4: when a cipher engine is about to run on the message buffer, every   *)
(* byte of message from msg_size to the end of the last block is zero.     *)
C4_ZeroPadded ==
    (msg_status = MESSAGE_READY /\ mode \in {1, 2}) =>
        \A i \in msg_size..(BlockCount(msg_size) * AES128_ENCRYPTION_LENGTH - 1) :
            i < MAX_MESSAGE_SIZE => message[i] = 0

(* The ciphertext of a message under the canonical key and IV, computed on *)
(* storage no earlier operation has touched.                               *)
FreshMemory(msg) ==
    [hash |-> Zeros(CRYPTOLITE_MESSAGE_DIGEST_SIZE), message |-> msg,
     encrypted_msg |-> Zeros(MAX_MESSAGE_SIZE), decrypted_msg |-> Zeros(MAX_MESSAGE_SIZE),
     aes_key |-> aes_key_init, AesCtrIV |-> AesCtrIV_init,
     AesCtrIV_copied |-> AesCtrIV_init, AesCfbIV |-> AesCfbIV_init,
     AesCfbIV_copied |-> AesCfbIV_init]

CiphertextOf(m, msg, len) ==
    LET M == IF m = 1
             THEN Cy_Cryptolite_Aes_Ctr(FreshMemory(msg), layout, aes_key_init, len,
                                        "AesCtrIV_copied", "encrypted_msg", "message")
             ELSE Cy_Cryptolite_Aes_Cfb(FreshMemory(msg), layout, aes_key_init, "ENCRYPT",
                                        len, "AesCfbIV_copied", "encrypted_msg", "message")
    IN  [i \in 1..len |-> M.encrypted_msg[i - 1]]

(* C5: every CTR and CFB engine call starts with its IV copy equal to the  *)
(* canonical IV, and the ciphertext printed for a message is the one the   *)
(* canonical key and IV give on untouched storage, whatever ran before.    *)
C5_FreshIV ==
    /\ \A k \in CipherCalls :
          /\ calls[k].op = "Aes_Ctr" =>
                calls[k].ivbuf = "AesCtrIV_copied" /\ calls[k].iv = AesCtrIV_init
          /\ calls[k].op = "Aes_Cfb" =>
                calls[k].ivbuf = "AesCfbIV_copied" /\ calls[k].iv = AesCfbIV_init
    /\ (entered.mode \in {1, 2} /\ Len(calls) >= 3 /\ Len(tx) >= 1
        /\ (\A k \in 1..3 : calls[k].status = CY_CRYPTOLITE_SUCCESS)
        /\ calls[2].len <= MAX_MESSAGE_SIZE) =>
          tx[1].data = CiphertextOf(entered.mode, entered.message, calls[2].len)

(* A CTR session after a CFB session that left its IV copy advanced. *)
C5_Witness ==
    /\ Ran(1) /\ Succeeded /\ Len(calls) = 6
    /\ entered.size > 0
    /\ AesCfbIV_copied # Zeros(16) /\ AesCfbIV_copied # AesCfbIV_init
    /\ AesCtrIV_copied # AesCtrIV_init

PasswordPrinted == Len(tx) = 1 /\ tx[1].kind = "password"

(* C7: every one of the 8 bytes of a generated password lies in 33..126.   *)
C7_PasswordPrintable ==
    (PasswordPrinted /\ Succeeded) =>
        /\ Len(tx[1].data) = PASSWORD_LENGTH
        /\ \A i \in 1..Len(tx[1].data) : tx[1].data[i] \in 33..126

(* Byte j (least significant first) of a 32-bit value. *)
ByteOfWord(w, j) ==
    IF j = 0 THEN w.lo % 256
    ELSE IF j = 1 THEN w.lo \div 256
    ELSE IF j = 2 THEN w.hi % 256
    ELSE w.hi \div 256

MapByte(v) == IF v < 33 THEN v + 33 ELSE v

(* C8: character j of draw d is f(byte j of the draw AND 0x7F), with       *)
(* f(v) = v + 33 below 33 and v otherwise; the characters 33..65 have two  *)
(* 7-bit preimages each.                                                   *)
C8_ByteMapping ==
    (PasswordPrinted /\ Succeeded) =>
        \A d \in 1..2 : \A j \in 0..3 :
            LET c == trng.password[4 * (d - 1) + j]
            IN  /\ c = MapByte(ByteOfWord(trng.draws[d], j) % 128)
                /\ c \in 33..65 =>
                      {v \in 0..127 : check_range(v) = c} = {c - 33, c}

C8_Witness ==
    /\ PasswordPrinted /\ Succeeded
    /\ \E j \in 0..3 : ByteOfWord(trng.draws[1], j) >= 128
    /\ \E j \in 0..3 : ByteOfWord(trng.draws[2], j) % 128 < 33
    /\ trng.draws[1] # trng.draws[2]

(* C9: a successful generate_password makes exactly two draws, writes the  *)
(* characters at indices 0..7 in order and the terminator at index 8; no   *)
(* write ever falls outside the 9-byte array.                              *)
C9_PasswordShape ==
    /\ \A k \in DOMAIN trng.writes : trng.writes[k] \in 0..PASSWORD_LENGTH
    /\ (PasswordPrinted /\ Succeeded) =>
          /\ trng.writes = <<0, 1, 2, 3, 4, 5, 6, 7, 8>>
          /\ trng.ndraws = 2
          /\ Cardinality({k \in DOMAIN calls : calls[k].op = "Trng"}) = 2
          /\ trng.password[PASSWORD_LENGTH] = 0
          /\ Len(tx[1].data) = PASSWORD_LENGTH

C9_Witness ==
    /\ PasswordPrinted /\ Succeeded
    /\ trng.draws[1] # trng.draws[2]
    /\ trng.password[0] # trng.password[4]

Failed(k) == k \in DOMAIN calls /\ calls[k].status # CY_CRYPTOLITE_SUCCESS

Printed(kind) == \E k \in DOMAIN tx : tx[k].kind = kind

(* C10: an operation whose engine call reports a failure surfaces no       *)
(* output: no ciphertext dump after a failed call of the encryption, no    *)
(* decrypted text after a failed call of the decryption, no digest after a *)
(* failed hash, no password after a failed TRNG call.                      *)
C10_NoPartialResult ==
    /\ (entered.mode \in {1, 2} /\ (Failed(1) \/ Failed(2) \/ Failed(3))) =>
          ~Printed("encrypted")
    /\ (entered.mode \in {1, 2} /\ (Failed(4) \/ Failed(5) \/ Failed(6))) =>
          ~Printed("decrypted")
    /\ (entered.mode = 3 /\ Failed(1)) => ~Printed("hash")
    /\ (\E k \in DOMAIN calls : Failed(k)) => ~Printed("password")

(* The last step ran generate_password. *)
TrngRan == Len(calls) >= 1 /\ calls[1].op = "Trng_Init"

(* C11: when TRNG initialisation or a draw fails, generate_password is     *)
(* told apart from a successful run (which always prints a password): it   *)
(* prints no password, and it makes no further engine call, so the failed  *)
(* call is its last one.                                                   *)
C11_TrngFailureReported ==
    (TrngRan /\ \E k \in DOMAIN calls : Failed(k)) =>
        /\ ~Printed("password")
        /\ \A k \in DOMAIN calls : Failed(k) => k = Len(calls)

(* C12: in mode 3 the hash engine is run on exactly the first msg_size     *)
(* bytes of message, so the digest is that of the line the keystrokes      *)
(* spell; an empty line hashes the zero-length input.                      *)
C12_HashCoversMessage ==
    (entered.mode = 3 /\ Len(calls) >= 1) =>
        /\ calls[1].op = "Sha256_Run"
        /\ calls[1].src = "message"
        /\ calls[1].len = entered.size
        /\ Len(line) = entered.size
        /\ (Succeeded /\ ~halted) =>
              /\ hash = Sha256(line)
              /\ Len(tx) = 1 /\ tx[1].kind = "hash"
              /\ tx[1].data = [i \in 1..CRYPTOLITE_MESSAGE_DIGEST_SIZE |-> hash[i - 1]]

(* A hashed line with a stale byte behind its terminator. *)
C12_Witness ==
    /\ Ran(3) /\ Succeeded /\ Len(calls) = 1
    /\ entered.size >= 1
    /\ entered.message[entered.size] = 0
    /\ entered.message[entered.size + 1] # 0

(* C13: for every size s in 0..255 the block count is ceil(s/16), with no  *)
(* padding block when s is a multiple of 16; encrypt and decrypt of one    *)
(* session pass the same length blockCount*16 to the engine.               *)
C13_BlockCount ==
    /\ \A s \in 0..255 :
          /\ BlockCount(s) = (s + 15) \div 16
          /\ BlockCount(s) \in 0..255
          /\ s % 16 = 0 => BlockCount(s) * AES128_ENCRYPTION_LENGTH = s
    /\ entered.mode \in {1, 2} =>
          /\ \A k \in CipherCalls : calls[k].len = 16 * ((entered.size + 15) \div 16)
          /\ Len(calls) >= 5 => calls[2].len = calls[5].len

(* A session of exactly six blocks. *)
C13_Witness ==
    /\ Ran(1) /\ Len(calls) = 6
    /\ entered.size = 6 * AES128_ENCRYPTION_LENGTH
    /\ calls[2].len = entered.size /\ calls[5].len = entered.size

(* The same session run on the empty message, on untouched storage. *)
EmptyRun(m) ==
    RunMode([M |-> FreshMemory(Zeros(MAX_MESSAGE_SIZE)), calls |-> << >>, tx |-> << >>,
             aes_state |-> Zeros(16), halted |-> FALSE],
            m, 0, Parameters(0, Zeros(16), ZeroWord)).M

(* C14: back in MENU after a cipher session, the IV working copy of that   *)
(* session does not depend on the message: it is what the same session     *)
(* leaves for the empty message.                                           *)
C14_IVCopiesDiscarded ==
    /\ (Ran(1) /\ Succeeded) => AesCtrIV_copied = EmptyRun(1).AesCtrIV_copied
    /\ (Ran(2) /\ Succeeded) => AesCfbIV_copied = EmptyRun(2).AesCfbIV_copied

CountOf(op) == Cardinality({k \in DOMAIN calls : calls[k].op = op})

(* An AES state has been initialised and not yet freed. *)
InFlight == CountOf("Aes_Init") > CountOf("Aes_Free")

(* C15: the AES calls of a step come as Init, one CTR or CFB process call, *)
(* Free, repeated; outside a cipher session there is none; an AES state is *)
(* initialised and not freed only inside a message_ready that stopped, so  *)
(* never while the driver waits for a key.                                 *)
C15_OneInFlight ==
    /\ \A k \in DOMAIN calls :
          IF entered.mode \in {1, 2}
          THEN calls[k].op =
                  (IF k % 3 = 1 THEN "Aes_Init"
                   ELSE IF k % 3 = 0 THEN "Aes_Free"
                   ELSE IF entered.mode = 1 THEN "Aes_Ctr" ELSE "Aes_Cfb")
          ELSE calls[k].op \notin {"Aes_Init", "Aes_Ctr", "Aes_Cfb", "Aes_Free"}
    /\ InFlight => halted /\ msg_status = MESSAGE_READY
    /\ msg_status \in {MENU, MESSAGE_ENTER_NEW} => ~InFlight

(* A release-build session whose process call failed and was still freed. *)
C15_Witness ==
    /\ Ran(1) /\ Len(calls) = 6
    /\ Failed(2)
    /\ calls[3].op = "Aes_Free"

(* C17: msg_size never exceeds MAX_MESSAGE_SIZE - 1, so message[msg_size]  *)
(* is an element of the buffer and an engine is handed at most 99 bytes.   *)
C17_SizeBounded ==
    /\ msg_size \in 0..(MAX_MESSAGE_SIZE - 1)
    /\ msg_size \in DOMAIN message
    /\ entered.size <= MAX_MESSAGE_SIZE - 1

C17_Witness ==
    /\ msg_status = MESSAGE_ENTER_NEW
    /\ msg_size = MAX_MESSAGE_SIZE - 1
    /\ message[MAX_MESSAGE_SIZE - 2] \in Chars

(* C18: a character that makes msg_size exceed MAX_MESSAGE_SIZE - 1 clears *)
(* the whole message, sets msg_size to 0, keeps MESSAGE_ENTER_NEW and the  *)
(* mode, and runs no engine.                                               *)
C18_OverLengthReset ==
    [][(/\ msg_status = MESSAGE_ENTER_NEW
        /\ msg_size = MAX_MESSAGE_SIZE - 1
        /\ budget'.keys + budget'.others < budget.keys + budget.others)
       => (/\ message' = Zeros(MAX_MESSAGE_SIZE)
           /\ msg_size' = 0
           /\ msg_status' = MESSAGE_ENTER_NEW
           /\ mode' = mode
           /\ calls' = << >> /\ tx' = << >>)]_vars

(* The state after the hundredth character of one entry. *)
C18_Witness ==
    /\ msg_status = MESSAGE_ENTER_NEW
    /\ msg_size = 0
    /\ message = Zeros(MAX_MESSAGE_SIZE)
    /\ budget.keys + MAX_MESSAGE_SIZE <= MaxKeys
    /\ budget.sessions = 0

(* C19: in MENU msg_size is 0 and message is all zero, and a message_ready *)
(* that ran to its end left the driver in MENU.                            *)
C19_MenuClean ==
    /\ msg_status = MENU => msg_size = 0 /\ message = Zeros(MAX_MESSAGE_SIZE)
    /\ (entered.mode # 0 /\ ~halted) => msg_status = MENU

C19_Witness ==
    /\ Ran(3) /\ Len(calls) = 1
    /\ entered.size > 0
    /\ entered.message[0] # 0

(* C20: when Enter is received, message[0 .. msg_size-1] is the line the   *)
(* keystrokes of this entry spell (a character appended, a backspace       *)
(* removing the last one) and message[msg_size] is 0.                      *)
C20_LineEditing ==
    msg_status = MESSAGE_READY =>
        /\ Len(line) = msg_size
        /\ \A i \in 1..Len(line) : message[i - 1] = line[i]
        /\ message[msg_size] = 0

(* Two different characters left on the line after a backspace was used. *)
C20_Witness ==
    /\ msg_status = MESSAGE_READY
    /\ Len(line) >= 2
    /\ line[1] # line[2]
    /\ budget.backspaces < MaxEditBackspaces
    /\ budget.keys + budget.others + Len(line) < MaxEditKeys + MaxEditOthers

SelectKeys == {CRYPTOLITE_AES_CTR, CRYPTOLITE_AES_CFB, CRYPTOLITE_SHA_256}

AllEnterKeys == {CR, LF, BACKSPACE} \cup Chars \cup OtherChars

(* C21: msg_status changes only MENU -> MESSAGE_ENTER_NEW, exactly on the  *)
(* menu keys '1', '2', '3'; MESSAGE_ENTER_NEW -> MESSAGE_READY, exactly on *)
(* CR or LF; MESSAGE_READY -> MENU.  Key '4' runs generate_password, any   *)
(* other key runs nothing, and both leave msg_status, msg_size, message    *)
(* and mode alone.  A timeout in MESSAGE_ENTER_NEW changes nothing.        *)
C21_StatusTransitions ==
    [][/\ msg_status' # msg_status =>
             <<msg_status, msg_status'>> \in
                 {<<MENU, MESSAGE_ENTER_NEW>>, <<MESSAGE_ENTER_NEW, MESSAGE_READY>>,
                  <<MESSAGE_READY, MENU>>}
       /\ msg_status = MENU =>
             /\ msg_status' = MESSAGE_ENTER_NEW <=> dst_cmd' \in SelectKeys
             /\ dst_cmd' \notin SelectKeys =>
                   UNCHANGED <<msg_status, msg_size, message, mode>>
             /\ dst_cmd' = CRYPTOLITE_TRNG <=>
                   (Len(calls') >= 1 /\ calls'[1].op = "Trng_Init")
             /\ dst_cmd' # CRYPTOLITE_TRNG => calls' = << >> /\ tx' = << >>
       /\ msg_status = MESSAGE_ENTER_NEW =>
             /\ \A c \in AllEnterKeys :
                   ReceiveChar(c) =>
                       (msg_status' = MESSAGE_READY <=> c \in {CR, LF})
             /\ Timeout => UNCHANGED <<msg_status, msg_size, mode, dst_cmd, arrays>>
      ]_vars

(* In the menu, after a complete hash session and then a key that is none *)
(* of '1' .. '4'.                                                          *)
C21_Witness ==
    /\ msg_status = MENU
    /\ dst_cmd \in OtherKeys
    /\ mode = 3
    /\ hash # Zeros(CRYPTOLITE_MESSAGE_DIGEST_SIZE)

(* The engine calls of one complete operation of mode m, as operation,     *)
(* direction, source and destination.                                      *)
OperationOf(m) ==
    IF m = 1
    THEN <<<<"Aes_Init", "-", "-", "-">>,
           <<"Aes_Ctr", "-", "message", "encrypted_msg">>,
           <<"Aes_Free", "-", "-", "-">>,
           <<"Aes_Init", "-", "-", "-">>,
           <<"Aes_Ctr", "-", "encrypted_msg", "decrypted_msg">>,
           <<"Aes_Free", "-", "-", "-">> >>
    ELSE IF m = 2
    THEN <<<<"Aes_Init", "-", "-", "-">>,
           <<"Aes_Cfb", "ENCRYPT", "message", "encrypted_msg">>,
           <<"Aes_Free", "-", "-", "-">>,
           <<"Aes_Init", "-", "-", "-">>,
           <<"Aes_Cfb", "DECRYPT", "encrypted_msg", "decrypted_msg">>,
           <<"Aes_Free", "-", "-", "-">> >>
    ELSE <<<<"Sha256_Run", "-", "message", "hash">> >>

(* C22: while a message is entered or ready, mode is 1, 2 or 3 and is the  *)
(* one of the last menu key; message_ready runs the operation of that mode *)
(* and no other: CTR encrypt then decrypt of the ciphertext, CFB likewise, *)
(* or one SHA-256 run, once.                                               *)
C22_ModeIsLastSelection ==
    /\ msg_status \in {MESSAGE_ENTER_NEW, MESSAGE_READY} =>
          /\ mode \in {1, 2, 3}
          /\ dst_cmd = 48 + mode
    /\ entered.mode # 0 =>
          /\ entered.mode = mode
          /\ dst_cmd = 48 + mode
          /\ Len(calls) <= Len(OperationOf(mode))
          /\ ~halted => Len(calls) = Len(OperationOf(mode))
          /\ \A k \in DOMAIN calls :
                <<calls[k].op, calls[k].dir, calls[k].src, calls[k].dst>>
                    = OperationOf(mode)[k]

(* A hash session that follows a cipher session. *)
C22_Witness ==
    /\ Ran(3) /\ Len(calls) = 1
    /\ budget.sessions + 2 <= MaxSessions
    /\ AesCtrIV_copied # Zeros(16) \/ AesCfbIV_copied # Zeros(16)

(* C23: a ready message whose engine calls succeed takes the driver to     *)
(* MENU in the next step, which reads no key; if the user eventually       *)
(* presses Enter, message entry is followed by MENU, unless a failed       *)
(* engine call halted the CPU; a driver that is not halted is never stuck:  *)
(* in MENU and in message entry a key is accepted, and a ready message is  *)
(* always processed.                                                       *)
C23_EventuallyMenu ==
    /\ [][(msg_status = MESSAGE_READY /\ Succeeded') =>
             /\ msg_status' = MENU
             /\ ~halted'
             /\ UNCHANGED <<dst_cmd, line>>
             /\ budget'.keys = budget.keys /\ budget'.others = budget.others
             /\ budget'.backspaces = budget.backspaces
             /\ budget'.sessions = budget.sessions]_vars
    /\ (msg_status = MESSAGE_ENTER_NEW) ~> (msg_status = MENU \/ halted)
    /\ (msg_status = MESSAGE_READY) ~> (msg_status = MENU \/ halted)
    /\ [](~halted =>
              /\ msg_status = MENU => ENABLED message_menu
              /\ msg_status = MESSAGE_ENTER_NEW => ENABLED enter_message
              /\ msg_status \in {MENU, MESSAGE_ENTER_NEW, MESSAGE_READY})

(* Back in the menu after a message was entered and processed. *)
C23_Witness ==
    /\ msg_status = MENU /\ ~halted
    /\ entered.mode \in {1, 2, 3}
    /\ entered.size = MaxLiveKeys
    /\ Succeeded /\ Len(calls) >= 1

=============================================================================
